---- MODULE Spec2Model ----
(***************************************************************************)
(* Resume-Scanner-System: the hard-match scoring engine                    *)
(* (scoring_engine.py), the "Run Advanced Analysis" handler and the        *)
(* History Management sidebar of the Streamlit page (app_advanced.py), and *)
(* the functions that write the evaluations table (database.py).           *)
(*                                                                         *)
(* Texts are sequences of one-character strings, so that str.lower(), the  *)
(* `in` substring test, the regular expressions and the tokenizer are      *)
(* computed character by character.  Scores are exact rationals [n, d].    *)
(*                                                                         *)
(* Four specifications share the variables:                                *)
(*   Spec       one session of the page: scoring and the analysis button   *)
(*   SpecCalls  calculate_hard_match_score called again and again          *)
(*   SpecDb     save_evaluation called again and again                     *)
(*   SpecUi     the sidebar buttons on a table that holds rows             *)
(***************************************************************************)
EXTENDS Integers, Sequences, FiniteSets, TLC

(* ------------------------------ bounds --------------------------------- *)

\* a text is at most MaxFrags fragments, joined by single spaces
MaxFrags == 2

\* the handler is run at most MaxRuns times in one behaviour
MaxRuns == 1

(* ------------------------------- state --------------------------------- *)

\* the calls of calculate_hard_match_score so far, with what each returned
VARIABLE calls

(* --------------------------- str primitives ---------------------------- *)

ToLower ==
    ("A" :> "a") @@ ("B" :> "b") @@ ("C" :> "c") @@ ("D" :> "d") @@ ("E" :> "e") @@ ("F" :> "f") @@
    ("G" :> "g") @@ ("H" :> "h") @@ ("I" :> "i") @@ ("J" :> "j") @@ ("K" :> "k") @@ ("L" :> "l") @@
    ("M" :> "m") @@ ("N" :> "n") @@ ("O" :> "o") @@ ("P" :> "p") @@ ("Q" :> "q") @@ ("R" :> "r") @@
    ("S" :> "s") @@ ("T" :> "t") @@ ("U" :> "u") @@ ("V" :> "v") @@ ("W" :> "w") @@ ("X" :> "x") @@
    ("Y" :> "y") @@ ("Z" :> "z")

\* str.lower() on ASCII text
\* the ASCII letters that lower() changes
UpperChars == DOMAIN ToLower

lower(t) ==
    SubSeq([i \in 1..Len(t) |-> IF t[i] \in UpperChars THEN ToLower[t[i]] ELSE t[i]],
           1, Len(t))

\* Python's `s in t` on strings
IsSubstring(s, t) ==
    \E i \in 0..(Len(t) - Len(s)) : \A k \in 1..Len(s) : t[i + k] = s[k]

Digits == <<"0", "1", "2", "3", "4", "5", "6", "7", "8", "9">>

\* the class \d of the re module, on ASCII text
DigitChars == {Digits[k] : k \in 1..Len(Digits)}

DigitValue(c) == (CHOOSE k \in 1..Len(Digits) : Digits[k] = c) - 1

\* the class \s of the re module
SpaceChars == {" ", "\t", "\n", "\r"}

\* the class \w of the re module, on ASCII text
WordChars == DigitChars \cup {"_"} \cup DOMAIN ToLower \cup {ToLower[u] : u \in DOMAIN ToLower}

(* ------------------------- exact score arithmetic ---------------------- *)

RECURSIVE GCD(_, _)
GCD(a, b) == IF b = 0 THEN a ELSE GCD(b, a % b)

Abs(x) == IF x < 0 THEN -x ELSE x

\* the value of an expression whose evaluation raised: no number at all.  Its
\* denominator is 0, so every sum, product and quotient it enters raised too
Raised == [n |-> 0, d |-> 0]

\* the rational n/d in lowest terms, d > 0; n / 0 raises ZeroDivisionError
Rat(n, d) ==
    IF d = 0 THEN Raised
    ELSE LET g == GCD(Abs(n), Abs(d))
             s == IF d < 0 THEN -1 ELSE 1
         IN  [n |-> s * (n \div g), d |-> s * (d \div g)]

RInt(k) == [n |-> k, d |-> 1]

RAdd(x, y) == Rat(x.n * y.d + y.n * x.d, x.d * y.d)

RMul(x, y) == Rat(x.n * y.n, x.d * y.d)

RDiv(x, y) == Rat(x.n * y.d, x.d * y.n)

RLe(x, y) == x.n * y.d <= y.n * x.d

RLt(x, y) == x.n * y.d < y.n * x.d

RMax(x, y) == IF RLe(x, y) THEN y ELSE x

(* ------------------------------ literals ------------------------------- *)

s_must_have == <<"m", "u", "s", "t", " ", "h", "a", "v", "e">>

s_required == <<"r", "e", "q", "u", "i", "r", "e", "d">>

s_essential == <<"e", "s", "s", "e", "n", "t", "i", "a", "l">>

s_proficient_in == <<"p", "r", "o", "f", "i", "c", "i", "e", "n", "t", " ", "i", "n">>

s_need_to_have == <<"n", "e", "e", "d", " ", "t", "o", " ", "h", "a", "v", "e">>

s_years == <<"y", "e", "a", "r", "s">>

s_yrs == <<"y", "r", "s">>

s_bachelor == <<"b", "a", "c", "h", "e", "l", "o", "r">>

s_master == <<"m", "a", "s", "t", "e", "r">>

s_phd == <<"p", "h", "d">>

s_b_sc == <<"b", ".", "s", "c">>

s_m_sc == <<"m", ".", "s", "c">>

s_b_tech == <<"b", ".", "t", "e", "c", "h">>

s_m_tech == <<"m", ".", "t", "e", "c", "h">>

s_b_e == <<"b", ".", "e", ".">>

s_m_e == <<"m", ".", "e", ".">>

s_degree == <<"d", "e", "g", "r", "e", "e">>

s_diploma == <<"d", "i", "p", "l", "o", "m", "a">>

(* ------------------------------- inputs -------------------------------- *)

jd_must_python == <<"M", "u", "s", "t", " ", "h", "a", "v", "e", " ", "P", "y", "t", "h", "o", "n", ".">>

jd_good_sql == <<"G", "o", "o", "d", " ", "t", "o", " ", "h", "a", "v", "e", " ", "S", "Q", "L", ".">>

jd_requires_5 == <<"R", "e", "q", "u", "i", "r", "e", "s", " ", "5", " ", "y", "e", "a", "r", "s", " ", "e", "x", "p", "e", "r", "i", "e", "n", "c", "e", ".">>

jd_bachelor == <<"B", "a", "c", "h", "e", "l", "o", "r", " ", "d", "e", "g", "r", "e", "e", ".">>

jd_4_yrs == <<"4", "+", " ", "y", "r", "s", " ", "o", "f", " ", "p", "y", "t", "h", "o", "n">>

jd_diploma == <<"D", "i", "p", "l", "o", "m", "a", " ", "r", "e", "q", "u", "i", "r", "e", "d", ".">>

cv_python_3 == <<"I", " ", "h", "a", "v", "e", " ", "3", " ", "y", "e", "a", "r", "s", " ", "o", "f", " ", "P", "y", "t", "h", "o", "n", " ", "e", "x", "p", "e", "r", "i", "e", "n", "c", "e", ".">>

cv_sql_2 == <<"2", " ", "y", "r", "s", " ", "S", "Q", "L", ".">>

cv_3_years == <<"3", " ", "y", "e", "a", "r", "s", " ", "o", "f", " ", "e", "x", "p", "e", "r", "i", "e", "n", "c", "e", ".">>

cv_btech == <<"B", ".", "T", "e", "c", "h", " ", "d", "e", "g", "r", "e", "e", ".">>

cv_master == <<"M", "a", "s", "t", "e", "r", " ", "o", "f", " ", "S", "c", "i", "e", "n", "c", "e", ",", " ", "6", ".", "5", " ", "y", "e", "a", "r", "s", ".">>

jd_stop_words == <<"M", "u", "s", "t", " ", "h", "a", "v", "e", " ", "t", "h", "e">>

jd_repeated == <<"S", "Q", "L", " ", "S", "Q", "L", " ", "S", "Q", "L", " ", "S", "Q", "L", " ", "S", "Q", "L", " ", "S", "Q", "L", " ", "S", "Q", "L", " ", "S", "Q", "L", " ", "P", "y", "t", "h", "o", "n">>

cv_stop_words == <<"I", " ", "h", "a", "v", "e">>

n_Python == <<"P", "y", "t", "h", "o", "n">>

n_SQL == <<"S", "Q", "L">>

n_Excel == <<"E", "x", "c", "e", "l">>

v_python == <<"p", "y", "t", "h", "o", "n">>

v_sql == <<"s", "q", "l">>

v_Py == <<"P", "y">>

v_python3 == <<"p", "y", "t", "h", "o", "n", "3">>

v_mysql == <<"m", "y", "s", "q", "l">>

v_excel == <<"e", "x", "c", "e", "l">>

v_spreadsheets == <<"s", "p", "r", "e", "a", "d", "s", "h", "e", "e", "t", "s">>

(* --------------------------- Skill Extractor --------------------------- *)

trigger_phrases ==
    <<s_must_have, s_required, s_essential, s_proficient_in, s_need_to_have>>

\* faulty variant: only the first trigger phrase is looked for
has_trigger_phrase_first_only(jd_text_lower) ==
    IsSubstring(trigger_phrases[1], jd_text_lower)

\* any(phrase in jd_text_lower for phrase in [...])
has_trigger_phrase(jd_text_lower) ==
    \E k \in 1..Len(trigger_phrases) : IsSubstring(trigger_phrases[k], jd_text_lower)

\* the inner loop "for variation in variations + [skill.lower()]", which stops
\* at the first variation that occurs in the text
RECURSIVE variation_hit(_, _, _)
variation_hit(variations, text_lower, i) ==
    IF i > Len(variations) THEN FALSE
    ELSE IF IsSubstring(variations[i], text_lower) THEN TRUE
    ELSE variation_hit(variations, text_lower, i + 1)

\* the outer loop "for skill, variations in skills_library.items()"
RECURSIVE jd_skills_loop(_, _, _, _)
jd_skills_loop(skills_library, i, jd_text_lower, acc) ==
    IF i > Len(skills_library) THEN acc
    ELSE LET skill == skills_library[i].skill
             variations == skills_library[i].variations
         IN  jd_skills_loop(skills_library, i + 1, jd_text_lower,
                 IF variation_hit(variations \o <<lower(skill)>>, jd_text_lower, 1)
                 THEN IF has_trigger_phrase(jd_text_lower)
                      THEN [acc EXCEPT !.must_have = @ \cup {skill}]
                      ELSE [acc EXCEPT !.good_to_have = @ \cup {skill}]
                 ELSE acc)

\* faulty variant: the else is lost, a must-have skill is good-to-have as well
extract_skills_from_jd_no_else(jd_text, skills_library) ==
    LET acc == jd_skills_loop(skills_library, 1, lower(jd_text),
                              [must_have |-> {}, good_to_have |-> {}])
    IN  [must_have |-> acc.must_have,
         good_to_have |-> acc.good_to_have \cup acc.must_have]

\* faulty variant: the two sets live at module level and are not emptied,
\* a call starts from the sets the call before it returned
extract_skills_from_jd_accumulating(jd_text, skills_library) ==
    jd_skills_loop(skills_library, 1, lower(jd_text),
                   IF calls = <<>>
                   THEN [must_have |-> {}, good_to_have |-> {}]
                   ELSE [must_have |-> calls[Len(calls)].returned.must_have_skills,
                         good_to_have |-> calls[Len(calls)].returned.good_to_have_skills])

extract_skills_from_jd(jd_text, skills_library) ==
    jd_skills_loop(skills_library, 1, lower(jd_text),
                   [must_have |-> {}, good_to_have |-> {}])

\* skills_library[skill]
library_get(skills_library, skill) ==
    skills_library[CHOOSE i \in 1..Len(skills_library) :
                       skills_library[i].skill = skill].variations

\* one pass of "for skill in skill_set" filling one found set
found_in_resume(skill_set, resume_text_lower, skills_library) ==
    {skill \in skill_set :
        variation_hit(library_get(skills_library, skill) \o <<lower(skill)>>,
                      resume_text_lower, 1)}

\* faulty variant: the resume text is not lowercased
check_skills_in_resume_case_sensitive(resume_text, must_have, good_to_have, skills_library) ==
    [found_must |-> found_in_resume(must_have, resume_text, skills_library),
     found_good |-> found_in_resume(good_to_have, resume_text, skills_library)]

check_skills_in_resume(resume_text, must_have, good_to_have, skills_library) ==
    [found_must |-> found_in_resume(must_have, lower(resume_text), skills_library),
     found_good |-> found_in_resume(good_to_have, lower(resume_text), skills_library)]

\* faulty variant: the two weights are exchanged
calculate_skill_score_swapped(found_must, found_good, must_have, good_to_have) ==
    LET must_have_ratio ==
            IF must_have # {} THEN Rat(Cardinality(found_must), Cardinality(must_have))
            ELSE RInt(1)
        good_to_have_ratio ==
            IF good_to_have # {} THEN Rat(Cardinality(found_good), Cardinality(good_to_have))
            ELSE RInt(1)
        score == RAdd(RMul(must_have_ratio, Rat(3, 10)), RMul(good_to_have_ratio, Rat(7, 10)))
    IN  RMul(score, RInt(100))

\* faulty variant: an empty required set gives the ratio 0
calculate_skill_score_empty_zero(found_must, found_good, must_have, good_to_have) ==
    LET must_have_ratio ==
            IF must_have # {} THEN Rat(Cardinality(found_must), Cardinality(must_have))
            ELSE RInt(0)
        good_to_have_ratio ==
            IF good_to_have # {} THEN Rat(Cardinality(found_good), Cardinality(good_to_have))
            ELSE RInt(0)
        score == RAdd(RMul(must_have_ratio, Rat(7, 10)), RMul(good_to_have_ratio, Rat(3, 10)))
    IN  RMul(score, RInt(100))

calculate_skill_score(found_must, found_good, must_have, good_to_have) ==
    LET must_have_ratio ==
            IF must_have # {} THEN Rat(Cardinality(found_must), Cardinality(must_have))
            ELSE RInt(1)
        good_to_have_ratio ==
            IF good_to_have # {} THEN Rat(Cardinality(found_good), Cardinality(good_to_have))
            ELSE RInt(1)
        score == RAdd(RMul(must_have_ratio, Rat(7, 10)), RMul(good_to_have_ratio, Rat(3, 10)))
    IN  RMul(score, RInt(100))

(* -------------------------- Education Matcher -------------------------- *)

education_keywords ==
    <<s_bachelor, s_master, s_phd, s_b_sc, s_m_sc, s_b_tech, s_m_tech, s_b_e, s_m_e,
      s_degree, s_diploma>>

education_terms == <<s_bachelor, s_master, s_phd, s_diploma, s_degree>>

\* [keyword for keyword in keywords if keyword in text_lower]
keywords_in(keywords, text_lower) ==
    SelectSeq(keywords, LAMBDA keyword : IsSubstring(keyword, text_lower))

extract_education(resume_text) == keywords_in(education_keywords, lower(resume_text))

\* faulty variant: all() in place of any() over the JD's requirement terms
check_education_requirement_all(jd_text, resume_education) ==
    LET jd_reqs == keywords_in(education_terms, lower(jd_text))
    IN  IF jd_reqs = <<>> THEN RInt(100)
        ELSE IF \A r \in 1..Len(jd_reqs) : \E e \in 1..Len(resume_education) :
                    IsSubstring(jd_reqs[r], resume_education[e])
             THEN RInt(100)
             ELSE RInt(0)

check_education_requirement(jd_text, resume_education) ==
    LET jd_reqs == keywords_in(education_terms, lower(jd_text))
    IN  IF jd_reqs = <<>> THEN RInt(100)
        ELSE IF \E r \in 1..Len(jd_reqs) : \E e \in 1..Len(resume_education) :
                    IsSubstring(jd_reqs[r], resume_education[e])
             THEN RInt(100)
             ELSE RInt(0)

(* -------------------------- Experience Matcher ------------------------- *)

\* the position after the longest run of characters of a class starting at i
run_end(t, i, class) ==
    CHOOSE j \in i..(Len(t) + 1) :
        /\ \A k \in i..(j - 1) : t[k] \in class
        /\ j = Len(t) + 1 \/ t[j] \notin class

\* the position after the longest run of \d starting at i
digits_end(t, i) == run_end(t, i, DigitChars)

\* the position after the longest run of \s starting at i
spaces_end(t, i) == run_end(t, i, SpaceChars)

\* the first position from i on that holds a character of a class, or Len(t) + 1
next_in(t, i, class) ==
    CHOOSE j \in i..(Len(t) + 1) :
        /\ \A k \in i..(j - 1) : t[k] \notin class
        /\ j = Len(t) + 1 \/ t[j] \in class

\* the position after an optional character c at j
skip_char(t, j, c) == IF j <= Len(t) /\ t[j] = c THEN j + 1 ELSE j

\* the position after the group (\d+\.?\d*) of a match that starts at i
group_end(t, i) == digits_end(t, skip_char(t, digits_end(t, i), "."))

\* the position after \s*\+?\s* behind the group
unit_start(t, i) == spaces_end(t, skip_char(t, spaces_end(t, group_end(t, i)), "+"))

\* the literal unit stands at position j
unit_at(t, j, unit) ==
    j + Len(unit) - 1 <= Len(t) /\ SubSeq(t, j, j + Len(unit) - 1) = unit

\* re.match of (\d+\.?\d*)\s*\+?\s*<unit> at position i: every part of the
\* pattern starts with a character the part before it cannot consume, so the
\* greedy parse is the only one
years_match(t, i, unit) ==
    [ok    |-> digits_end(t, i) > i /\ unit_at(t, unit_start(t, i), unit),
     group |-> SubSeq(t, i, group_end(t, i) - 1),
     end   |-> unit_start(t, i) + Len(unit)]

RECURSIVE findall(_, _, _)
\* re.findall: the groups of the non-overlapping matches, left to right
findall(unit, t, i) ==
    LET start == next_in(t, i, DigitChars)  \* a match starts with a digit
        m == years_match(t, start, unit)
    IN  IF start > Len(t) THEN <<>>
        ELSE IF m.ok THEN <<m.group>> \o findall(unit, t, m.end)
        ELSE findall(unit, t, start + 1)

RECURSIVE digits_int(_, _)
\* the integer written by the first k characters of a run of digits
digits_int(g, k) == IF k = 0 THEN 0 ELSE 10 * digits_int(g, k - 1) + DigitValue(g[k])

RECURSIVE Pow10(_)
Pow10(k) == IF k = 0 THEN 1 ELSE 10 * Pow10(k - 1)

\* float() of a match of \d+\.?\d*
float(g) ==
    LET dots == {k \in 1..Len(g) : g[k] = "."}
        whole == IF dots = {} THEN g ELSE SubSeq(g, 1, (CHOOSE k \in dots : TRUE) - 1)
        frac == IF dots = {} THEN <<>> ELSE SubSeq(g, (CHOOSE k \in dots : TRUE) + 1, Len(g))
    IN  Rat(digits_int(whole, Len(whole)) * Pow10(Len(frac)) + digits_int(frac, Len(frac)),
            Pow10(Len(frac)))

\* the matches of both patterns, as numbers
years_found(text) ==
    LET matches == findall(s_years, lower(text), 1) \o findall(s_yrs, lower(text), 1)
    IN  [k \in 1..Len(matches) |-> float(matches[k])]

RECURSIVE max_from(_, _, _)
\* max over a list, starting from a given value
max_from(start, xs, k) ==
    IF k > Len(xs) THEN start ELSE max_from(RMax(start, xs[k]), xs, k + 1)

\* faulty variant: the last figure found in place of the highest
extract_experience_last(resume_text) ==
    LET found_years == years_found(resume_text)
    IN  IF found_years # <<>> THEN found_years[Len(found_years)] ELSE RInt(0)

extract_experience(resume_text) ==
    LET found_years == years_found(resume_text)
    IN  IF found_years # <<>> THEN max_from(found_years[1], found_years, 2) ELSE RInt(0)

\* faulty variant: the ratio is returned without the test resume >= required
check_experience_requirement_uncapped(jd_text, resume_experience_years) ==
    LET jd_required_years == max_from(RInt(0), years_found(jd_text), 1)
    IN  IF jd_required_years = RInt(0) THEN RInt(100)
        ELSE RMax(RInt(0), RMul(RDiv(resume_experience_years, jd_required_years), RInt(100)))

check_experience_requirement(jd_text, resume_experience_years) ==
    LET jd_required_years == max_from(RInt(0), years_found(jd_text), 1)
    IN  IF jd_required_years = RInt(0) THEN RInt(100)
        ELSE IF RLe(jd_required_years, resume_experience_years) THEN RInt(100)
        ELSE RMax(RInt(0), RMul(RDiv(resume_experience_years, jd_required_years), RInt(100)))

(* ---------------------------- Concept Matcher -------------------------- *)

\* TfidfVectorizer(max_features=25)
max_features == 25

s_to == <<"t", "o">>

s_of == <<"o", "f">>

s_have == <<"h", "a", "v", "e">>

s_must == <<"m", "u", "s", "t">>

s_and == <<"a", "n", "d">>

s_the == <<"t", "h", "e">>

s_in == <<"i", "n">>

s_or == <<"o", "r">>

\* stop_words='english': the words of the vectorizer's English stop list
\* that occur in the texts below, and a few more
english_stop_words == {s_to, s_of, s_have, s_must, s_and, s_the, s_in, s_or}

\* the position after the longest run of \w starting at i
word_end(t, i) == run_end(t, i, WordChars)

RECURSIVE word_tokens(_, _)
\* the token that starts at a given position, if it has two characters or
\* more, and the tokens behind it
tokens_from(t, start, end) ==
    (IF end - start >= 2 THEN <<SubSeq(t, start, end - 1)>> ELSE <<>>) \o word_tokens(t, end)

\* the vectorizer's token pattern \b\w\w+\b: the runs of two or more \w
word_tokens(t, i) ==
    IF next_in(t, i, WordChars) > Len(t) THEN <<>>
    ELSE tokens_from(t, next_in(t, i, WordChars), word_end(t, next_in(t, i, WordChars)))

\* the vectorizer's analyzer: lowercase, tokenize, drop the stop words
analyze(text) ==
    SelectSeq(word_tokens(lower(text), 1), LAMBDA w : w \notin english_stop_words)

\* the term's count in a tokenized document
term_count(tokens, w) == Cardinality({k \in 1..Len(tokens) : tokens[k] = w})

\* the vectorizer keeps the max_features terms of highest count over the corpus
limit_features(vocabulary, jd_tokens, resume_tokens) ==
    IF Cardinality(vocabulary) <= max_features THEN vocabulary
    ELSE CHOOSE kept \in SUBSET vocabulary :
            /\ Cardinality(kept) = max_features
            /\ \A a \in kept : \A b \in vocabulary \ kept :
                   term_count(jd_tokens, a) + term_count(resume_tokens, a)
                       >= term_count(jd_tokens, b) + term_count(resume_tokens, b)

\* 10^4 * idf^2, with the smoothed idf = ln((1 + 2) / (1 + df)) + 1 of a corpus
\* of two documents: 1 for a term of both, 1.40546... for a term of one
idf_squared(w, jd_tokens, resume_tokens) ==
    IF term_count(jd_tokens, w) > 0 /\ term_count(resume_tokens, w) > 0
    THEN 10000 ELSE 19753

\* 10^4 * (tf * idf)^2 of a term in the JD row, before the row is normalised
jd_weight_squared(w, jd_tokens, resume_tokens) ==
    term_count(jd_tokens, w) * term_count(jd_tokens, w)
        * idf_squared(w, jd_tokens, resume_tokens)

RECURSIVE SumOver(_, _, _, _)
SumOver(S, jd_tokens, resume_tokens, acc) ==
    IF S = {} THEN acc
    ELSE LET w == CHOOSE x \in S : TRUE
         IN  SumOver(S \ {w}, jd_tokens, resume_tokens,
                     acc + jd_weight_squared(w, jd_tokens, resume_tokens))

\* the terms of the two documents
vocabulary_of(jd_tokens, resume_tokens) ==
    {jd_tokens[k] : k \in 1..Len(jd_tokens)}
        \cup {resume_tokens[k] : k \in 1..Len(resume_tokens)}

\* the terms whose weight in the l2-normalised JD row is above 0.1, that is
\* whose squared weight is above 1/100 of the row's squared norm
terms_above_threshold(feature_names, jd_tokens, resume_tokens, norm_squared) ==
    {w \in feature_names :
        /\ term_count(jd_tokens, w) > 0
        /\ 100 * jd_weight_squared(w, jd_tokens, resume_tokens) > norm_squared}

important_of(feature_names, jd_tokens, resume_tokens) ==
    terms_above_threshold(feature_names, jd_tokens, resume_tokens,
                          SumOver(feature_names, jd_tokens, resume_tokens, 0))

\* what fit_transform raises on a corpus without a single term; it is kept
\* apart from every set of terms, none of which holds a one-item word
ValueError == {<<"ValueError">>}

\* fit the vectorizer on [jd_text, resume_text] and keep the JD row's terms
\* above the threshold; an empty vocabulary raises ValueError
fit_transform(jd_tokens, resume_tokens) ==
    IF vocabulary_of(jd_tokens, resume_tokens) = {} THEN ValueError
    ELSE
    important_of(limit_features(vocabulary_of(jd_tokens, resume_tokens),
                                jd_tokens, resume_tokens),
                 jd_tokens, resume_tokens)

important_jd_words(jd_text, resume_text) ==
    fit_transform(analyze(jd_text), analyze(resume_text))

\* faulty variant: one important term in the resume is enough for 100
concept_fraction_any(important, resume_lower) ==
    IF important = {} THEN RInt(0)
    ELSE IF \E w \in important : IsSubstring(w, resume_lower) THEN RInt(100)
    ELSE RInt(0)

\* len(found_important_words) / len(important_jd_words) * 100
concept_fraction(important, resume_lower) ==
    IF important = {} THEN RInt(0)
    ELSE RMul(Rat(Cardinality({w \in important : IsSubstring(w, resume_lower)}),
                  Cardinality(important)),
              RInt(100))

\* faulty variant: no try/except around the vectorizer, the ValueError escapes
calculate_concept_match_score_uncaught(jd_text, resume_text) ==
    IF important_jd_words(jd_text, resume_text) = ValueError THEN Raised
    ELSE concept_fraction(important_jd_words(jd_text, resume_text), lower(resume_text))

\* try: ... except ValueError: return 0
calculate_concept_match_score(jd_text, resume_text) ==
    IF important_jd_words(jd_text, resume_text) = ValueError THEN RInt(0)
    ELSE concept_fraction(important_jd_words(jd_text, resume_text), lower(resume_text))

(* ------------------------ Hard-Match Orchestrator ---------------------- *)

\* faulty variant: the weights of education and of concepts are exchanged
apply_weights_exchanged(skill_score, education_score, concept_score, exp_score) ==
    RAdd(RAdd(RMul(skill_score, Rat(4, 10)), RMul(education_score, Rat(3, 10))),
         RAdd(RMul(concept_score, Rat(2, 10)), RMul(exp_score, Rat(1, 10))))

\* hard_score = skill*0.4 + education*0.2 + concept*0.3 + exp*0.1
apply_weights(skill_score, education_score, concept_score, exp_score) ==
    RAdd(RAdd(RMul(skill_score, Rat(4, 10)), RMul(education_score, Rat(2, 10))),
         RAdd(RMul(concept_score, Rat(3, 10)), RMul(exp_score, Rat(1, 10))))

calculate_hard_match_score(jd_text, resume_text, skills_library) ==
    LET
        jd_skills == extract_skills_from_jd(jd_text, skills_library)
        must_have == jd_skills.must_have
        good_to_have == jd_skills.good_to_have
        found == check_skills_in_resume(resume_text, must_have, good_to_have, skills_library)
        skill_score == calculate_skill_score(found.found_must, found.found_good,
                                             must_have, good_to_have)
        resume_education == extract_education(resume_text)
        education_score == check_education_requirement(jd_text, resume_education)
        concept_score == calculate_concept_match_score(jd_text, resume_text)
        resume_exp_years == extract_experience(resume_text)
        exp_score == check_experience_requirement(jd_text, resume_exp_years)
    IN  [hard_score |-> apply_weights(skill_score, education_score, concept_score, exp_score),
         must_have_skills |-> must_have, good_to_have_skills |-> good_to_have,
         found_must_have |-> found.found_must, found_good_to_have |-> found.found_good,
         skill_score |-> skill_score, education_score |-> education_score,
         concept_score |-> concept_score, experience_score |-> exp_score]

(* ------------------------------ the caller ----------------------------- *)

\* final_score = (hard_score * 0.45) + (semantic_score * 0.55)
final_score_of(hard_score, semantic_score) ==
    RAdd(RMul(hard_score, Rat(45, 100)), RMul(semantic_score, Rat(55, 100)))

\* faulty variant: a final score of exactly 70 is not yet a high fit
verdict_of_strict(final_score) ==
    IF RLt(RInt(70), final_score) THEN "HIGH FIT"
    ELSE IF RLe(RInt(40), final_score) THEN "MEDIUM FIT"
    ELSE "LOW FIT"

\* result_data['verdict']
verdict_of(final_score) ==
    IF RLe(RInt(70), final_score) THEN "HIGH FIT"
    ELSE IF RLe(RInt(40), final_score) THEN "MEDIUM FIT"
    ELSE "LOW FIT"

\* the "Final Verdict" section of the results page
verdict_shown(final_score) ==
    IF RLe(RInt(70), final_score) THEN "HIGH FIT"
    ELSE IF RLe(RInt(40), final_score) THEN "MEDIUM FIT"
    ELSE "LOW FIT"

\* text fragments of job descriptions and of resumes
JdFrags == <<jd_must_python, jd_good_sql, jd_requires_5, jd_bachelor, jd_4_yrs, jd_diploma>>

CvFrags == <<cv_python_3, cv_sql_2, cv_3_years, cv_btech, cv_master>>

RECURSIVE JoinFrags(_, _, _)
\* the fragments of index in S, in order, separated by single spaces
JoinFrags(frags, S, i) ==
    IF i > Len(frags) THEN <<>>
    ELSE IF i \notin S THEN JoinFrags(frags, S, i + 1)
    ELSE LET rest == JoinFrags(frags, S, i + 1)
         IN  IF rest = <<>> THEN frags[i] ELSE frags[i] \o <<" ">> \o rest

Texts(frags) ==
    {JoinFrags(frags, S, 1) :
        S \in {S \in SUBSET (1..Len(frags)) : Cardinality(S) <= MaxFrags}}

JdTexts == Texts(JdFrags)

ResumeTexts == Texts(CvFrags)

\* skills.json as loaded: skill name -> list of variations, in file order
Catalogs ==
    { <<>>,
      <<[skill |-> n_Python, variations |-> <<v_python>>],
        [skill |-> n_SQL, variations |-> <<v_sql>>]>>,
      <<[skill |-> n_Python, variations |-> <<v_Py, v_python3>>],
        [skill |-> n_SQL, variations |-> <<v_mysql>>],
        [skill |-> n_Excel, variations |-> <<v_excel, v_spreadsheets>>]>> }

\* scores the embedding provider may return
SemanticScores == {RInt(0), RInt(40), RInt(70)}

(* --------------------------- the application --------------------------- *)

VARIABLES
    skills_library,  \* the catalog loaded at startup
    jd_text,         \* the text of the uploaded job description
    resume_text,     \* the text of the uploaded resume
    result,          \* what the last call of calculate_hard_match_score returned
    page,            \* what the results page shows
    evaluations,     \* the rows of the evaluations table
    runs,            \* how many times the analysis button was pressed
    confirm_delete,  \* st.session_state.confirm_delete: TRUE when the key is present (and set)
    confirm_shown,   \* which of "Confirm Delete All" and "Cancel" the last script run rendered
    last_run,        \* the last script run: the button pressed and what the run called
    connections,     \* the database connections that are open
    save_returned    \* how the last call of save_evaluation ended

vars == <<skills_library, jd_text, resume_text, result, page, evaluations, runs,
          calls, confirm_delete, confirm_shown, last_run, connections, save_returned>>

\* no value yet
None == [none |-> TRUE]

\* the state of the session's sidebar
ui_vars == <<confirm_delete, confirm_shown, last_run>>

Init ==
    /\ skills_library \in Catalogs
    /\ jd_text \in JdTexts
    /\ resume_text \in ResumeTexts
    /\ result = None
    /\ page = None
    /\ evaluations = <<>>
    /\ runs = 0
    /\ calls = <<>>
    /\ confirm_delete = FALSE
    /\ confirm_shown = {}
    /\ last_run = None
    /\ connections = 0
    /\ save_returned = None

\* a direct call of the engine's entry point on the current inputs
Score ==
    /\ result = None
    /\ result' = calculate_hard_match_score(jd_text, resume_text, skills_library)
    /\ UNCHANGED <<skills_library, jd_text, resume_text, page, evaluations, runs>>
    /\ UNCHANGED <<calls, ui_vars, connections, save_returned>>

(* ------------------------------ database ------------------------------ *)

\* what may go wrong with the database during one call:
\*   "no_connection"   get_db_connection returns None
\*   "statement"       cur.execute raises, the connection stays usable
\*   "commit"          conn.commit raises, the connection stays usable
\*   "connection_lost" the server is gone: cur.execute raises, and so does
\*                     conn.rollback in the except clause
DbFaults == {"none", "no_connection", "statement", "commit", "connection_lost"}

\* list(a_set): the items in the iteration order of the set, which depends on
\* the hash seed of the process and on the insertions; any order can come out
list(a_set) ==
    {q \in [1..Cardinality(a_set) -> a_set] :
        \A a, b \in 1..Cardinality(a_set) : q[a] = q[b] => a = b}

\* the values of the INSERT of save_evaluation, the four sets as the JSON
\* arrays json.dumps(list(...)) made of them
insert_values(result_data, must_have, found_must_have, good_to_have, found_good_to_have) ==
    [hard_score |-> result_data.hard_score,
     semantic_score |-> result_data.semantic_score,
     final_score |-> result_data.final_score,
     verdict |-> result_data.verdict,
     must_have_skills |-> must_have,
     found_must_have_skills |-> found_must_have,
     good_to_have_skills |-> good_to_have,
     found_good_to_have_skills |-> found_good_to_have]

\* what a call on the database leaves: the rows of the table, how the call
\* ended, and the connections it opened and closed
ended(rows, how, opened, closed) ==
    [rows |-> rows, how |-> how, opened |-> opened, closed |-> closed]

\* save_evaluation: no connection returns False; the insert committed returns
\* True; an exception in the try block is answered by conn.rollback() and
\* return False; an exception of conn.rollback() itself leaves the function;
\* the finally clause closes the connection in every case
save_evaluation(rows, values, fault) ==
    IF fault = "no_connection" THEN ended(rows, [returned |-> FALSE], 0, 0)
    ELSE IF fault = "none" THEN ended(Append(rows, values), [returned |-> TRUE], 1, 1)
    ELSE IF fault \in {"statement", "commit"} THEN ended(rows, [returned |-> FALSE], 1, 1)
    ELSE ended(rows, [raised |-> "rollback"], 1, 1)

\* delete_all_evaluations: TRUNCATE the table; the same try/except/finally
\* around it, and nothing is returned
delete_all_evaluations(rows, fault) ==
    IF fault = "no_connection" THEN ended(rows, [returned |-> None], 0, 0)
    ELSE IF fault = "none" THEN ended(<<>>, [returned |-> None], 1, 1)
    ELSE IF fault \in {"statement", "commit"} THEN ended(rows, [returned |-> None], 1, 1)
    ELSE ended(rows, [raised |-> "rollback"], 1, 1)

\* cleanup_old_records: DELETE the rows older than the cut-off, which are the
\* first `old` rows of the table; the same try/except/finally around it
cleanup_old_records(rows, old, fault) ==
    IF fault = "no_connection" THEN ended(rows, [returned |-> 0], 0, 0)
    ELSE IF fault = "none"
         THEN ended(SubSeq(rows, old + 1, Len(rows)), [returned |-> old], 1, 1)
    ELSE IF fault = "statement" THEN ended(rows, [returned |-> 0], 1, 1)
    ELSE IF fault = "commit" THEN ended(rows, [returned |-> old], 1, 1)
    ELSE ended(rows, [raised |-> "rollback"], 1, 1)

\* the result_data dictionary the handler builds for save_evaluation
result_data_of(r, semantic_score) ==
    [hard_score |-> r.hard_score, semantic_score |-> semantic_score,
     final_score |-> final_score_of(r.hard_score, semantic_score),
     verdict |-> verdict_of(final_score_of(r.hard_score, semantic_score)),
     must_have_skills |-> r.must_have_skills,
     found_must_have_skills |-> r.found_must_have,
     good_to_have_skills |-> r.good_to_have_skills,
     found_good_to_have_skills |-> r.found_good_to_have]

\* the "Run Advanced Analysis" button: score, ask the embedding provider for
\* the semantic score, save the row and show the results; an exception that
\* leaves save_evaluation ends the script run before the results are shown
RunAnalysis ==
    /\ runs < MaxRuns
    /\ jd_text # <<>> /\ resume_text # <<>>
    /\ \E r \in {calculate_hard_match_score(jd_text, resume_text, skills_library)} :
       \E semantic_score \in SemanticScores :
       \E final_score \in {final_score_of(r.hard_score, semantic_score)} :
       \E result_data \in {result_data_of(r, semantic_score)} :
       \E must_have \in list(result_data.must_have_skills) :
       \E found_must_have \in list(result_data.found_must_have_skills) :
       \E good_to_have \in list(result_data.good_to_have_skills) :
       \E found_good_to_have \in list(result_data.found_good_to_have_skills) :
       \E fault \in DbFaults :
       \E saved \in {save_evaluation(evaluations,
                                     insert_values(result_data, must_have, found_must_have,
                                                   good_to_have, found_good_to_have),
                                     fault)} :
           /\ result' = r
           /\ evaluations' = saved.rows
           /\ connections' = connections + saved.opened - saved.closed
           /\ save_returned' = saved.how
           /\ page' = IF saved.how = [raised |-> "rollback"] THEN None
                      ELSE [final_score |-> final_score, delta |-> result_data.verdict,
                            verdict |-> verdict_shown(final_score)]
    /\ runs' = runs + 1
    /\ UNCHANGED <<skills_library, jd_text, resume_text, calls, ui_vars>>

\* the button pressed without both files, or with a file that yields no text
RunAnalysisNoInput ==
    /\ runs < MaxRuns
    /\ jd_text = <<>> \/ resume_text = <<>>
    /\ runs' = runs + 1
    /\ UNCHANGED <<skills_library, jd_text, resume_text, result, page, evaluations>>
    /\ UNCHANGED <<calls, ui_vars, connections, save_returned>>

Next ==
    \/ Score
    \/ RunAnalysis
    \/ RunAnalysisNoInput

Spec == Init /\ [][Next]_vars

(* ------------------- the engine called again and again ----------------- *)

\* calculate_hard_match_score is called at most MaxCalls times in one behaviour
MaxCalls == 3

\* the job descriptions and the resumes the calls draw their arguments from
CallJdTexts == {<<>>, jd_stop_words, jd_repeated}

CallResumeTexts == {<<>>, cv_stop_words, cv_python_3, cv_sql_2}

InitCalls ==
    /\ skills_library \in {c \in Catalogs : Len(c) = 2}
    /\ jd_text = <<>>
    /\ resume_text = <<>>
    /\ result = None
    /\ page = None
    /\ evaluations = <<>>
    /\ runs = 0
    /\ calls = <<>>
    /\ confirm_delete = FALSE
    /\ confirm_shown = {}
    /\ last_run = None
    /\ connections = 0
    /\ save_returned = None

\* one call of calculate_hard_match_score(jd, resume, skills_library)
Call(jd, resume) ==
    /\ Len(calls) < MaxCalls
    /\ \E r \in {calculate_hard_match_score(jd, resume, skills_library)} :
           /\ result' = r
           /\ calls' = Append(calls, [jd_text |-> jd, resume_text |-> resume,
                                      skills_library |-> skills_library, returned |-> r])
    /\ jd_text' = jd
    /\ resume_text' = resume
    /\ UNCHANGED <<skills_library, page, evaluations, runs, ui_vars, connections, save_returned>>

NextCalls == \E jd \in CallJdTexts, resume \in CallResumeTexts : Call(jd, resume)

SpecCalls == InitCalls /\ [][NextCalls]_vars

(* ------------------- save_evaluation called again and again ----------- *)

\* save_evaluation is called while the table holds fewer than MaxRows rows
MaxRows == 2

\* the results the calls of save_evaluation draw their argument from
SavedResults ==
    {result_data_of(calculate_hard_match_score(jd, resume, c), semantic_score) :
        jd \in {jd_good_sql, jd_repeated}, resume \in {cv_python_3, cv_sql_2},
        c \in {c \in Catalogs : Len(c) = 2}, semantic_score \in SemanticScores}

InitDb ==
    /\ skills_library \in {c \in Catalogs : Len(c) = 2}
    /\ jd_text = <<>>
    /\ resume_text = <<>>
    /\ result = None
    /\ page = None
    /\ evaluations = <<>>
    /\ runs = 0
    /\ calls = <<>>
    /\ confirm_delete = FALSE
    /\ confirm_shown = {}
    /\ last_run = None
    /\ connections = 0
    /\ save_returned = None

\* one call of save_evaluation(result_data)
SaveEvaluation(result_data) ==
    /\ Len(evaluations) < MaxRows
    /\ \E must_have \in list(result_data.must_have_skills) :
       \E found_must_have \in list(result_data.found_must_have_skills) :
       \E good_to_have \in list(result_data.good_to_have_skills) :
       \E found_good_to_have \in list(result_data.found_good_to_have_skills) :
       \E fault \in DbFaults :
       \E saved \in {save_evaluation(evaluations,
                                     insert_values(result_data, must_have, found_must_have,
                                                   good_to_have, found_good_to_have),
                                     fault)} :
           /\ evaluations' = saved.rows
           /\ connections' = connections + saved.opened - saved.closed
           /\ save_returned' = saved.how
    /\ UNCHANGED <<skills_library, jd_text, resume_text, result, page, runs, calls, ui_vars>>

NextDb == \E result_data \in SavedResults : SaveEvaluation(result_data)

SpecDb == InitDb /\ [][NextDb]_vars

(* ------------------------ the History Management sidebar -------------- *)

\* the rows a stored result can be, its sets listed in any order
StoredRows ==
    UNION {{insert_values(result_data, must_have, found_must_have,
                          good_to_have, found_good_to_have) :
                must_have \in list(result_data.must_have_skills),
                found_must_have \in list(result_data.found_must_have_skills),
                good_to_have \in list(result_data.good_to_have_skills),
                found_good_to_have \in list(result_data.found_good_to_have_skills)} :
           result_data \in SavedResults}

\* the tables of at most MaxRows rows
StoredTables == UNION {[1..n -> StoredRows] : n \in 0..MaxRows}

\* a session opens on a table that earlier sessions have filled
InitUi ==
    /\ skills_library \in {c \in Catalogs : Len(c) = 2}
    /\ jd_text = <<>>
    /\ resume_text = <<>>
    /\ result = None
    /\ page = None
    /\ evaluations \in StoredTables
    /\ runs = 0
    /\ calls = <<>>
    /\ confirm_delete = FALSE
    /\ confirm_shown = {}
    /\ last_run = None
    /\ connections = 0
    /\ save_returned = None

\* a script run: the button pressed in it and whether it called
\* delete_all_evaluations
script_run(pressed, called) == [pressed |-> pressed, delete_all_called |-> called]

\* lines 115-125 when neither button is pressed: the warning, "Confirm Delete
\* All" and "Cancel" are rendered when the key is in the session state
rendered(flag) == IF flag THEN {"confirm", "cancel"} ELSE {}

\* a rerun without a button of the sidebar pressed (another widget was used)
Rerun ==
    /\ confirm_shown' = rendered(confirm_delete)
    /\ last_run' = script_run("none", FALSE)
    /\ UNCHANGED <<skills_library, jd_text, resume_text, result, page, evaluations, runs,
                   calls, confirm_delete, connections, save_returned>>

\* "Clean Up Old Records": cleanup_old_records, st.success, st.rerun(); an
\* exception of cleanup_old_records ends the run before the lines below it
PressCleanUp ==
    /\ \E old \in 0..Len(evaluations) :
       \E fault \in DbFaults :
       \E cleaned \in {cleanup_old_records(evaluations, old, fault)} :
           /\ evaluations' = cleaned.rows
           /\ connections' = connections + cleaned.opened - cleaned.closed
           /\ confirm_shown' = IF cleaned.how = [raised |-> "rollback"] THEN {}
                               ELSE rendered(confirm_delete)
    /\ last_run' = script_run("clean_up", FALSE)
    /\ UNCHANGED <<skills_library, jd_text, resume_text, result, page, runs, calls,
                   confirm_delete, save_returned>>

\* "Delete All History": set the key when it is absent, delete it when it is
\* there, st.rerun()
PressDeleteAllHistory ==
    /\ confirm_delete' = ~confirm_delete
    /\ confirm_shown' = rendered(confirm_delete')
    /\ last_run' = script_run("delete_all_history", FALSE)
    /\ UNCHANGED <<skills_library, jd_text, resume_text, result, page, evaluations, runs,
                   calls, connections, save_returned>>

\* "Confirm Delete All", which can be pressed when the last run rendered it:
\* delete_all_evaluations(), st.success, del st.session_state.confirm_delete,
\* st.rerun(); an exception of delete_all_evaluations ends the run with the
\* button rendered and the lines below it not executed
PressConfirmDeleteAll ==
    /\ "confirm" \in confirm_shown
    /\ IF confirm_delete
       THEN \E fault \in DbFaults :
            \E deleted \in {delete_all_evaluations(evaluations, fault)} :
                /\ evaluations' = deleted.rows
                /\ connections' = connections + deleted.opened - deleted.closed
                /\ confirm_delete' = IF deleted.how = [raised |-> "rollback"]
                                     THEN confirm_delete ELSE FALSE
                /\ confirm_shown' = IF deleted.how = [raised |-> "rollback"]
                                    THEN {"confirm"} ELSE rendered(FALSE)
                /\ last_run' = script_run("confirm", TRUE)
       ELSE /\ confirm_shown' = rendered(confirm_delete)
            /\ last_run' = script_run("confirm", FALSE)
            /\ UNCHANGED <<evaluations, connections, confirm_delete>>
    /\ UNCHANGED <<skills_library, jd_text, resume_text, result, page, runs, calls,
                   save_returned>>

\* "Cancel", which can be pressed when the last run rendered it:
\* del st.session_state.confirm_delete, st.rerun()
PressCancel ==
    /\ "cancel" \in confirm_shown
    /\ confirm_delete' = FALSE
    /\ confirm_shown' = rendered(FALSE)
    /\ last_run' = script_run("cancel", FALSE)
    /\ UNCHANGED <<skills_library, jd_text, resume_text, result, page, evaluations, runs,
                   calls, connections, save_returned>>

NextUi ==
    \/ Rerun
    \/ PressCleanUp
    \/ PressDeleteAllHistory
    \/ PressConfirmDeleteAll
    \/ PressCancel

SpecUi == InitUi /\ [][NextUi]_vars

(* ------------------------------ properties ----------------------------- *)

\* the inputs of the concrete scenarios
ScenarioCatalog ==
    <<[skill |-> n_Python, variations |-> <<v_python>>],
      [skill |-> n_SQL, variations |-> <<v_sql>>]>>

ScenarioJd == jd_must_python \o <<" ">> \o jd_good_sql

InRange(x) == RLe(RInt(0), x) /\ RLe(x, RInt(100))

\* the variations of a catalog skill, with its lowercased name, as a set
Spellings(skill) ==
    {lower(skill)} \cup
    UNION {{skills_library[i].variations[k] : k \in 1..Len(skills_library[i].variations)} :
              i \in {i \in 1..Len(skills_library) : skills_library[i].skill = skill}}

\* the catalog skills of which a spelling occurs in the lowercased text
Occurring(text) ==
    {skills_library[i].skill : i \in {i \in 1..Len(skills_library) :
        \E v \in Spellings(skills_library[i].skill) : IsSubstring(v, lower(text))}}

\* C1: the hard score and the four sub-scores of every call are in [0, 100]
C1_ScoresInRange ==
    result # None =>
        /\ InRange(result.hard_score)
        /\ InRange(result.skill_score)
        /\ InRange(result.education_score)
        /\ InRange(result.concept_score)
        /\ InRange(result.experience_score)

\* a call in which the resume states more years than the JD requires and the
\* skill and concept scores are strictly inside the range
C1_Witness ==
    /\ result # None
    /\ RLt(max_from(RInt(0), years_found(jd_text), 1), extract_experience(resume_text))
    /\ max_from(RInt(0), years_found(jd_text), 1) # RInt(0)
    /\ RLt(RInt(0), result.skill_score) /\ RLt(result.skill_score, RInt(100))
    /\ RLt(RInt(0), result.concept_score) /\ RLt(result.concept_score, RInt(100))

\* C2: no skill is both must-have and good-to-have
C2_Disjoint ==
    result # None => result.must_have_skills \cap result.good_to_have_skills = {}

\* a call that classified two skills as must-have
C2_Witness ==
    /\ result # None
    /\ Cardinality(result.must_have_skills) = 2

\* C3: the found sets are subsets of the required sets, and a skill is found
\* exactly when it is required and one of its variations, or its lowercased
\* name, occurs in the lowercased resume
C3_FoundSets ==
    result # None =>
        /\ result.found_must_have \subseteq result.must_have_skills
        /\ result.found_good_to_have \subseteq result.good_to_have_skills
        /\ result.found_must_have = result.must_have_skills \cap Occurring(resume_text)
        /\ result.found_good_to_have = result.good_to_have_skills \cap Occurring(resume_text)

\* a call in which one must-have skill is found only by case-insensitive
\* matching and another is not found
C3_Witness ==
    /\ result # None
    /\ result.found_must_have = {n_Python}
    /\ result.must_have_skills = {n_Python, n_SQL}
    /\ ~IsSubstring(v_python, resume_text)

\* the scenario of C4 has been scored
C4_Scenario ==
    /\ skills_library = ScenarioCatalog
    /\ jd_text = ScenarioJd
    /\ resume_text = cv_python_3
    /\ result # None

\* C4 as stated: the scenario yields mustHave = {Python}, goodToHave = {SQL},
\* foundMustHave = {Python}, foundGoodToHave = {} and skillScore = 70
C4_AsStated ==
    C4_Scenario =>
        /\ result.must_have_skills = {n_Python}
        /\ result.good_to_have_skills = {n_SQL}
        /\ result.found_must_have = {n_Python}
        /\ result.found_good_to_have = {}
        /\ result.skill_score = RInt(70)

\* C4, amended: in the scenario "must have" makes both detected skills
\* must-have: mustHave = {Python, SQL}, goodToHave = {}, foundMustHave =
\* {Python}, foundGoodToHave = {} and skillScore = (1/2 * 0.7 + 1 * 0.3) * 100 = 65
C4_Amended ==
    C4_Scenario =>
        /\ result.must_have_skills = {n_Python, n_SQL}
        /\ result.good_to_have_skills = {}
        /\ result.found_must_have = {n_Python}
        /\ result.found_good_to_have = {}
        /\ result.skill_score = RInt(65)

C4_Witness == C4_Scenario /\ result.skill_score = RInt(65)

\* C5: the must-have decision is global: with a trigger phrase anywhere in the
\* lowercased JD every detected skill is must-have and none good-to-have,
\* without one every detected skill is good-to-have and none must-have; a
\* skill that is not detected is in neither set
C5_GlobalTrigger ==
    result # None =>
        LET triggered ==
                \E phrase \in {s_must_have, s_required, s_essential, s_proficient_in,
                               s_need_to_have} : IsSubstring(phrase, lower(jd_text))
        IN  /\ triggered => /\ result.must_have_skills = Occurring(jd_text)
                            /\ result.good_to_have_skills = {}
            /\ ~triggered => /\ result.good_to_have_skills = Occurring(jd_text)
                             /\ result.must_have_skills = {}

\* a call in which "required", far from the skill and not "must have", made
\* the one detected skill must-have while another catalog skill is in no set
C5_Witness ==
    /\ result # None
    /\ ~IsSubstring(s_must_have, lower(jd_text))
    /\ IsSubstring(s_required, lower(jd_text))
    /\ result.must_have_skills = {n_SQL}
    /\ \E i \in 1..Len(skills_library) : skills_library[i].skill = n_Python

\* C6: skillScore = (mustRatio * 0.7 + goodRatio * 0.3) * 100 with each ratio
\* found/required, or 1 for an empty required set; so two empty required sets,
\* and so an empty catalog, give 100
C6_SkillScore ==
    result # None =>
        LET Ratio(found, required) ==
                IF required = {} THEN RInt(1)
                ELSE Rat(Cardinality(found), Cardinality(required))
            mustRatio == Ratio(result.found_must_have, result.must_have_skills)
            goodRatio == Ratio(result.found_good_to_have, result.good_to_have_skills)
        IN  /\ result.skill_score.n * 10 * mustRatio.d * goodRatio.d
                   = result.skill_score.d * 100
                       * (7 * mustRatio.n * goodRatio.d + 3 * goodRatio.n * mustRatio.d)
            /\ result.must_have_skills = {} /\ result.good_to_have_skills = {}
                   => result.skill_score = RInt(100)
            /\ skills_library = <<>> => result.skill_score = RInt(100)

\* a call with a catalog of skills none of which the JD mentions
C6_Witness ==
    /\ result # None
    /\ skills_library # <<>>
    /\ jd_text # <<>>
    /\ result.must_have_skills = {} /\ result.good_to_have_skills = {}
    /\ result.skill_score = RInt(100)

\* C7: the education score is 100 when the JD holds none of bachelor, master,
\* phd, diploma, degree; else 100 when a term of the JD is a substring of a
\* degree keyword of the resume, else 0; it is never another value
C7_EducationBinary ==
    result # None =>
        LET jdTerms == {term \in {s_bachelor, s_master, s_phd, s_diploma, s_degree} :
                            IsSubstring(term, lower(jd_text))}
            resumeKeywords ==
                {kw \in {s_bachelor, s_master, s_phd, s_b_sc, s_m_sc, s_b_tech, s_m_tech,
                         s_b_e, s_m_e, s_degree, s_diploma} :
                     IsSubstring(kw, lower(resume_text))}
            matched == \E term \in jdTerms : \E kw \in resumeKeywords : IsSubstring(term, kw)
        IN  /\ result.education_score \in {RInt(0), RInt(100)}
            /\ jdTerms = {} => result.education_score = RInt(100)
            /\ jdTerms # {} /\ matched => result.education_score = RInt(100)
            /\ jdTerms # {} /\ ~matched => result.education_score = RInt(0)

\* a call in which the JD mentions "bachelor" and the resume holds no degree
\* keyword
C7_Witness ==
    /\ result # None
    /\ IsSubstring(s_bachelor, lower(jd_text))
    /\ extract_education(resume_text) = <<>>
    /\ resume_text # <<>>
    /\ result.education_score = RInt(0)

\* the highest years figure the two patterns match in a text, 0 if none
MaxYears(text) ==
    LET found == years_found(text)
        figures == {found[k] : k \in 1..Len(found)}
    IN  IF figures = {} THEN RInt(0)
        ELSE CHOOSE x \in figures : \A y \in figures : RLe(y, x)

\* C8: the experience score is 100 when the JD requires 0 years, 100 when the
\* resume's years reach the required years, else resume/required * 100 (4 and
\* 2 give 50, 5 and 3 give 60), and never negative
C8_ExperienceScore ==
    result # None =>
        LET requiredYears == MaxYears(jd_text)
            resumeYears == MaxYears(resume_text)
        IN  /\ requiredYears = RInt(0) => result.experience_score = RInt(100)
            /\ requiredYears # RInt(0) /\ RLe(requiredYears, resumeYears)
                   => result.experience_score = RInt(100)
            /\ requiredYears # RInt(0) /\ RLt(resumeYears, requiredYears)
                   => result.experience_score
                          = RMul(RDiv(resumeYears, requiredYears), RInt(100))
            /\ RLe(RInt(0), result.experience_score)
            /\ requiredYears = RInt(4) /\ resumeYears = RInt(2)
                   => result.experience_score = RInt(50)
            /\ jd_text = jd_requires_5 /\ resume_text = cv_3_years
                   => result.experience_score = RInt(60)

\* a call in which the resume states two figures, the lower one last, and the
\* higher one is below the 5 years the JD requires
C8_Witness ==
    /\ result # None
    /\ MaxYears(jd_text) = RInt(5)
    /\ Len(years_found(resume_text)) = 2
    /\ result.experience_score = RInt(60)

\* C9: the hard score is skill*0.4 + education*0.2 + concept*0.3 +
\* experience*0.1 of the sub-scores in the breakdown of the same call, whose
\* skill score is the one of the four skill sets in that breakdown
C9_WeightedSum ==
    result # None =>
        /\ result.hard_score
               = RAdd(RMul(result.skill_score, Rat(2, 5)),
                      RAdd(RMul(result.education_score, Rat(1, 5)),
                           RAdd(RMul(result.concept_score, Rat(3, 10)),
                                RMul(result.experience_score, Rat(1, 10)))))
        /\ result.skill_score
               = calculate_skill_score(result.found_must_have, result.found_good_to_have,
                                       result.must_have_skills, result.good_to_have_skills)

\* a call whose four sub-scores are pairwise different
C9_Witness ==
    /\ result # None
    /\ Cardinality({result.skill_score, result.education_score,
                    result.concept_score, result.experience_score}) = 4

\* the band of a final score: exactly one of the three verdicts
Band(final) ==
    CHOOSE verdict \in {"HIGH FIT", "MEDIUM FIT", "LOW FIT"} :
        /\ verdict = "HIGH FIT" <=> RLe(RInt(70), final)
        /\ verdict = "MEDIUM FIT" <=> RLe(RInt(40), final) /\ RLt(final, RInt(70))
        /\ verdict = "LOW FIT" <=> RLt(final, RInt(40))

\* C10: every saved row holds final = hard*0.45 + semantic*0.55 and the
\* verdict of its band; the page shows the final score of the hard score just
\* computed and the verdict of its band; a saved row and the page that agree
\* on the final score agree on the verdict
C10_Verdict ==
    /\ \A k \in 1..Len(evaluations) :
           /\ evaluations[k].final_score
                  = RAdd(RMul(evaluations[k].hard_score, Rat(9, 20)),
                         RMul(evaluations[k].semantic_score, Rat(11, 20)))
           /\ evaluations[k].verdict = Band(evaluations[k].final_score)
           /\ page # None /\ page.final_score = evaluations[k].final_score
                  => page.verdict = evaluations[k].verdict
    /\ page # None =>
           /\ \E semantic_score \in SemanticScores :
                  page.final_score = RAdd(RMul(result.hard_score, Rat(9, 20)),
                                          RMul(semantic_score, Rat(11, 20)))
           /\ page.verdict = Band(page.final_score)
           /\ page.delta = page.verdict

\* a run that saved and showed a final score of exactly 70
C10_Witness ==
    /\ page # None
    /\ page.final_score = RInt(70)
    /\ page.verdict = "HIGH FIT"
    /\ Len(evaluations) > 0
    /\ evaluations[Len(evaluations)].final_score = RInt(70)

\* the arguments of two recorded calls are identical
SameArguments(a, b) ==
    /\ a.skills_library = b.skills_library
    /\ a.jd_text = b.jd_text
    /\ a.resume_text = b.resume_text

ReturnedNormally(r) ==
    /\ r.hard_score.d > 0
    /\ r.skill_score.d > 0
    /\ r.education_score.d > 0
    /\ r.concept_score.d > 0
    /\ r.experience_score.d > 0

\* the text has no term at all: it is empty or made of stop words only
NoTerms(text) == analyze(text) = <<>>

\* C12: calculate_hard_match_score returns on every text, the empty string
\* included: two texts without a term give the concept score 0, a job
\* description that selects no important term gives 0, an empty must-have and
\* good-to-have set count as fully matched, and no required years give 100
C12_NeverFails ==
    \A i \in 1..Len(calls) :
        /\ ReturnedNormally(calls[i].returned)
        /\ NoTerms(calls[i].jd_text) => calls[i].returned.concept_score = RInt(0)
        /\ (calls[i].returned.must_have_skills = {}
                /\ calls[i].returned.good_to_have_skills = {})
              => calls[i].returned.skill_score = RInt(100)
        /\ years_found(calls[i].jd_text) = <<>>
              => calls[i].returned.experience_score = RInt(100)

\* both texts are made of stop words (the vectorizer raises), and both are
\* empty in another call
C12_Witness ==
    /\ \E i \in 1..Len(calls) :
           /\ calls[i].jd_text = jd_stop_words /\ calls[i].resume_text = cv_stop_words
           /\ fit_transform(analyze(calls[i].jd_text), analyze(calls[i].resume_text)) = ValueError
           /\ calls[i].returned.concept_score = RInt(0)
    /\ \E i \in 1..Len(calls) :
           /\ calls[i].jd_text = <<>> /\ calls[i].resume_text = <<>>
           /\ calls[i].returned.hard_score = RInt(70)

\* the items of a stored JSON array
Items(q) == {q[k] : k \in 1..Len(q)}

\* C13: the skill sets are stored in a canonical order: two stored evaluations
\* whose skill sets are equal hold the same four sequences
C13_CanonicalOrder ==
    \A i, j \in 1..Len(evaluations) :
        /\ Items(evaluations[i].must_have_skills) = Items(evaluations[j].must_have_skills)
              => evaluations[i].must_have_skills = evaluations[j].must_have_skills
        /\ Items(evaluations[i].found_must_have_skills)
                  = Items(evaluations[j].found_must_have_skills)
              => evaluations[i].found_must_have_skills = evaluations[j].found_must_have_skills
        /\ Items(evaluations[i].good_to_have_skills)
                  = Items(evaluations[j].good_to_have_skills)
              => evaluations[i].good_to_have_skills = evaluations[j].good_to_have_skills
        /\ Items(evaluations[i].found_good_to_have_skills)
                  = Items(evaluations[j].found_good_to_have_skills)
              => evaluations[i].found_good_to_have_skills
                     = evaluations[j].found_good_to_have_skills

\* the important JD terms the Concept Matcher selected in a recorded call,
\* none when the vectorizer raised
ImportantTerms(c) ==
    IF important_jd_words(c.jd_text, c.resume_text) = ValueError THEN {}
    ELSE important_jd_words(c.jd_text, c.resume_text)

\* the important terms that occur in the lowercased resume
FoundTerms(c) == {w \in ImportantTerms(c) : IsSubstring(w, lower(c.resume_text))}

\* C14: the concept score is 0 when no JD term is important, and otherwise
\* 100 * (important terms that are substrings of the lowercased resume)
\*     / (important terms)
C14_ConceptScore ==
    \A i \in 1..Len(calls) :
        IF ImportantTerms(calls[i]) = {}
        THEN calls[i].returned.concept_score = RInt(0)
        ELSE calls[i].returned.concept_score
                 = Rat(100 * Cardinality(FoundTerms(calls[i])),
                       Cardinality(ImportantTerms(calls[i])))

\* one of two important terms is in the resume, which gives 50; in another
\* call a term of the job description stays below the threshold
C14_Witness ==
    /\ \E i \in 1..Len(calls) :
           /\ Cardinality(ImportantTerms(calls[i])) = 2
           /\ Cardinality(FoundTerms(calls[i])) = 1
           /\ calls[i].returned.concept_score = RInt(50)
    /\ \E i \in 1..Len(calls) :
           /\ ImportantTerms(calls[i]) # {}
           /\ \E k \in 1..Len(analyze(calls[i].jd_text)) :
                  analyze(calls[i].jd_text)[k] \notin ImportantTerms(calls[i])

\* C15: delete_all_evaluations is called only in a run that finds the
\* confirm_delete flag set and has "Confirm Delete All" pressed; the flag is
\* set by "Delete All History" alone; and after a run with "Confirm Delete
\* All" or "Cancel" pressed the flag is removed, so that the next deletion
\* needs "Delete All History" again
C15_ConfirmedDeletion ==
    [][/\ last_run'.delete_all_called
             => confirm_delete /\ last_run'.pressed = "confirm"
       /\ (confirm_delete' /\ ~confirm_delete)
             => last_run'.pressed = "delete_all_history"
       /\ last_run'.pressed \in {"confirm", "cancel"} => ~confirm_delete']_vars

\* C16: a call of save_evaluation ends by returning True or False; True
\* means that the row was appended to the table, False (an exception in a
\* step, or no connection) that the table is as it was; and no connection is
\* left open when the call has ended
C16_SaveOutcome ==
    [][/\ save_returned' \in {[returned |-> TRUE], [returned |-> FALSE]}
       /\ save_returned' = [returned |-> TRUE]
             => /\ Len(evaluations') = Len(evaluations) + 1
                /\ SubSeq(evaluations', 1, Len(evaluations)) = evaluations
       /\ save_returned' = [returned |-> FALSE] => evaluations' = evaluations
       /\ connections' = 0]_vars

====
